---- MODULE Spec2Model ----
(***************************************************************************)
(* State-machine model of the learn-to-fly simulation:                     *)
(*   libs/neural-network     Network / Layer / Neuron                      *)
(*   libs/genetic-algorithm  GeneticAlgorithm, selection, crossover,       *)
(*                           mutation                                      *)
(*   libs/simulation         Simulation::step and its passes, Eye          *)
(*                                                                         *)
(* Numbers.  The program computes in f32.  The model computes in fixed     *)
(* point: a real r is the integer round(r * ONE), ONE = 10^4, and every    *)
(* operation that rounds in f32 (a product, a square root, a trigonometric *)
(* function) rounds to the nearest representable value here.  Angles are   *)
(* reals in radians carried at a resolution of pi/8 (ANGLE_STEP), the      *)
(* coarsest grid on which PI, FRAC_PI_2, FRAC_PI_4, FOV_ANGLE and          *)
(* FOV_ANGLE / 2 are all representable.                                    *)
(***************************************************************************)
EXTENDS Integers, Sequences, FiniteSets, TLC

\* f32 1.0 (the width of the world, the largest weight, full energy).
ONE == 10000

\* std::f32::consts::PI, in units of 1 / ONE.
PI == 31416

FRAC_PI_2 == PI \div 2

FRAC_PI_4 == PI \div 4

\* Resolution at which an angle is stored and at which atan2 answers.
ANGLE_STEP == PI \div 8

----------------------------------------------------------------------------
(* Program constants of libs/simulation/src/lib.rs and eye.rs.             *)

\* 0.001
SPEED_MIN == 10

\* 0.005
SPEED_MAX == 50

\* 0.2
SPEED_ACCEL == 2000

ROTATION_ACCEL == FRAC_PI_2

\* 0.002, the speed Animal::random gives every animal.
INIT_SPEED == 20

\* 0.01, the literal process_collisions compares the distance with.
EAT_DIST == 100

\* 0.25
FOV_RANGE == 2500

FOV_ANGLE == PI + FRAC_PI_4

CELLS == 9

\* The program's value is 2500; the model runs the same comparison
\* (age > GENERATION_LENGTH) with a generation short enough to cross.
GENERATION_LENGTH == 2

----------------------------------------------------------------------------
(* Bounds of the model.                                                    *)

\* Animals and foods World::random creates.
NumAnimals == 2

NumFoods == 2

\* Calls to Simulation::step that are explored.
MaxCalls == 6

----------------------------------------------------------------------------
(* Fixed-point arithmetic.                                                 *)

Abs(x) == IF x < 0 THEN -x ELSE x

Min(a, b) == IF a <= b THEN a ELSE b

Max(a, b) == IF a >= b THEN a ELSE b

\* f32::clamp(self, min, max)
clamp(x, lo, hi) == IF x < lo THEN lo ELSE IF x > hi THEN hi ELSE x

\* The f32 product a * b, rounded to the nearest representable value.
FMul(a, b) == (a * b + ONE \div 2) \div ONE

RECURSIVE SqrtSearch(_, _, _)
\* Largest r in lo..hi with r * r <= n.
SqrtSearch(n, lo, hi) ==
    IF lo >= hi THEN lo
    ELSE LET mid == (lo + hi + 1) \div 2
         IN  IF mid * mid <= n THEN SqrtSearch(n, mid, hi)
             ELSE SqrtSearch(n, lo, mid - 1)

\* f32::sqrt, correctly rounded: the integer nearest to the square root.
Sqrt(n) ==
    LET r == SqrtSearch(n, 0, 2 * ONE)
    IN  IF n - r * r > r THEN r + 1 ELSE r

\* Vector2::norm of (x, y).
norm(x, y) == Sqrt(x * x + y * y)

\* na::distance(&a, &b)
distance(a, b) == norm(a.x - b.x, a.y - b.y)

RECURSIVE wrap(_, _, _)
\* nalgebra::wrap(val, min, max): adds or subtracts the width until val
\* lies in the CLOSED range [min, max]; a val equal to max is returned as
\* it is (the tests are val < min and val > max).
wrap(val, min, max) ==
    IF val < min THEN wrap(val + (max - min), min, max)
    ELSE IF val > max THEN wrap(val - (max - min), min, max)
    ELSE val

\* sin(k * pi / 8) for k = 0..15, rounded.
SinTable ==
    << 0, 3827, 7071, 9239, 10000, 9239, 7071, 3827,
       0, -3827, -7071, -9239, -10000, -9239, -7071, -3827 >>

\* f32::sin of an angle of the grid.
Sin(theta) == SinTable[((theta \div ANGLE_STEP) % 16) + 1]

Cos(theta) == Sin(theta + FRAC_PI_2)

\* The multiple of ANGLE_STEP nearest to theta.
ToGrid(theta) == ((theta + ANGLE_STEP \div 2) \div ANGLE_STEP) * ANGLE_STEP

\* Rotation2::new(theta).angle(): a rotation keeps its angle modulo 2 pi,
\* in (-PI, PI].
Rotation2(theta) ==
    LET k == (((ToGrid(theta) \div ANGLE_STEP) + 7) % 16) - 7
    IN  k * ANGLE_STEP

\* atan(y / x) for x > 0, y >= 0, to the nearest multiple of pi / 8.  The
\* numbers are tan(pi/16), tan(3pi/16), tan(5pi/16), tan(7pi/16) * ONE.
AtanQ1(y, x) ==
    IF y * ONE < 1989 * x THEN 0
    ELSE IF y * ONE < 6682 * x THEN 1
    ELSE IF y * ONE < 14966 * x THEN 2
    ELSE IF y * ONE < 50273 * x THEN 3
    ELSE 4

\* f32::atan2(y, x), in [-PI, PI]; atan2(0, 0) = 0.
atan2(y, x) ==
    LET k == IF x = 0 /\ y = 0 THEN 0
             ELSE IF x = 0 THEN (IF y > 0 THEN 4 ELSE -4)
             ELSE IF x > 0 /\ y >= 0 THEN AtanQ1(y, x)
             ELSE IF x > 0 THEN -AtanQ1(-y, x)
             ELSE IF y >= 0 THEN 8 - AtanQ1(y, -x)
             ELSE AtanQ1(-y, -x) - 8
    IN  k * ANGLE_STEP

\* Rotation2::rotation_between(&Vector2::y(), &vec).angle(): the angle
\* from the y axis to vec, atan2(perp, dot) with perp = -vec.x, dot = vec.y;
\* the identity (angle 0) for the zero vector.
rotation_between_y(vx, vy) == atan2(-vx, vy)

\* The f32 quotient a / b (b > 0), rounded.
FDiv(a, b) == (a * ONE + b \div 2) \div b

(* f32 arithmetic at full width, for values that are whole numbers of a   *)
(* unit 2^-k: up to 2^24 units every such number is an f32, from there on  *)
(* an f32 keeps 24 significant bits.  (The statistics below are taken of   *)
(* fitness values of [0.5, 4) in units of 2^-24.)                          *)

\* 2^24: the numbers a significand of 24 bits holds; f32 1.0 in units of
\* 2^-24.
F32_ONE == 16777216

RECURSIVE f32_quantum(_, _)
\* The spacing of the f32 values around n: the least q = 2^k with
\* n / q < 2^24.
f32_quantum(n, q) == IF n \div q < F32_ONE THEN q ELSE f32_quantum(n, 2 * q)

\* num / den rounded to the nearest multiple of q, ties to the even one.
round_ties_even(num, den, q) ==
    LET k   == num \div (den * q)
        rem == num - k * den * q
    IN  IF 2 * rem < den * q THEN k * q
        ELSE IF 2 * rem > den * q THEN (k + 1) * q
        ELSE IF k % 2 = 0 THEN k * q ELSE (k + 1) * q

\* a + b in f32.
f32_add(a, b) == round_ties_even(a + b, 1, f32_quantum(a + b, 1))

\* a + b in f32, of either sign.
f32_plus(a, b) == IF a + b < 0 THEN -f32_add(-a, -b) ELSE f32_add(a, b)

\* sum / (n as f32) in f32.
f32_div(s, n) == round_ties_even(s, n, f32_quantum(s \div n, 1))

----------------------------------------------------------------------------
(* libs/neural-network: a Network is a sequence of Layers, a Layer a       *)
(* sequence of Neurons, a Neuron a bias and one weight per input.  A       *)
(* topology is the sequence of the layers' neuron counts.                  *)

RECURSIVE dot(_, _, _)
\* inputs.iter().zip(&self.weights).map(|(i, w)| i * w).sum() from index i on.
dot(inputs, ws, i) ==
    IF i > Len(ws) \/ i > Len(inputs) THEN 0
    ELSE FMul(inputs[i], ws[i]) + dot(inputs, ws, i + 1)

\* Neuron::propogate asserts the two lengths equal.
Neuron_propogate_panics(neuron, inputs) == Len(inputs) # Len(neuron.weights)

\* A neuron without the max(0.0): its output can be negative.
Neuron_propogate_linear(neuron, inputs) ==
    neuron.bias + dot(inputs, neuron.weights, 1)

\* Neuron::propogate: (self.bias + output).max(0.0)
Neuron_propogate(neuron, inputs) ==
    Max(neuron.bias + dot(inputs, neuron.weights, 1), 0)

\* Layer::propogate
Layer_propogate(layer, inputs) ==
    [n \in 1..Len(layer) |-> Neuron_propogate(layer[n], inputs)]

RECURSIVE fold_layers(_, _, _)
fold_layers(layers, inputs, l) ==
    IF l > Len(layers) THEN inputs
    ELSE fold_layers(layers, Layer_propogate(layers[l], inputs), l + 1)

\* Network::propogate: the layers folded over the inputs.
propogate(network, inputs) == fold_layers(network, inputs, 1)

RECURSIVE flatten(_)
flatten(seqs) ==
    IF seqs = << >> THEN << >> ELSE Head(seqs) \o flatten(Tail(seqs))

\* A weights() that gives the bias of a neuron after its weights.
weights_bias_last(network) ==
    flatten([l \in 1..Len(network) |->
        flatten([n \in 1..Len(network[l]) |->
            network[l][n].weights \o << network[l][n].bias >>])])

\* Network::weights: layer by layer, neuron by neuron, the bias and then
\* the weights.
weights(network) ==
    flatten([l \in 1..Len(network) |->
        flatten([n \in 1..Len(network[l]) |->
            << network[l][n].bias >> \o network[l][n].weights])])

\* Neuron::from_weights: takes the bias and input_size weights from the
\* iterator; panics ("got not enought weights") when it runs dry.
Neuron_from_weights(input_size, ws) ==
    IF Len(ws) < 1 + input_size
    THEN [panic |-> TRUE, neuron |-> [bias |-> 0, weights |-> << >>],
          rest |-> << >>]
    ELSE [panic |-> FALSE,
          neuron |-> [bias |-> ws[1],
                      weights |-> SubSeq(ws, 2, 1 + input_size)],
          rest |-> SubSeq(ws, 2 + input_size, Len(ws))]

RECURSIVE Layer_from_weights(_, _, _)
\* Layer::from_weights: output_size neurons, one after the other.
Layer_from_weights(input_size, output_size, ws) ==
    IF output_size = 0
    THEN [panic |-> FALSE, layer |-> << >>, rest |-> ws]
    ELSE LET n == Neuron_from_weights(input_size, ws)
             r == Layer_from_weights(input_size, output_size - 1, n.rest)
         IN  IF n.panic \/ r.panic
             THEN [panic |-> TRUE, layer |-> << >>, rest |-> << >>]
             ELSE [panic |-> FALSE, layer |-> << n.neuron >> \o r.layer,
                   rest |-> r.rest]

RECURSIVE windows_from_weights(_, _, _)
\* layers.windows(2).map(Layer::from_weights), from window w on.
windows_from_weights(layers, w, ws) ==
    IF w >= Len(layers)
    THEN [panic |-> FALSE, layers |-> << >>, rest |-> ws]
    ELSE LET l == Layer_from_weights(layers[w], layers[w + 1], ws)
             r == windows_from_weights(layers, w + 1, l.rest)
         IN  IF l.panic \/ r.panic
             THEN [panic |-> TRUE, layers |-> << >>, rest |-> << >>]
             ELSE [panic |-> FALSE, layers |-> << l.layer >> \o r.layers,
                   rest |-> r.rest]

\* A from_weights that does not look for values left over.
from_weights_lenient(layers, ws) ==
    IF Len(layers) <= 1 THEN [panic |-> TRUE, network |-> << >>]
    ELSE LET r == windows_from_weights(layers, 1, ws)
         IN  IF r.panic
             THEN [panic |-> TRUE, network |-> << >>]
             ELSE [panic |-> FALSE, network |-> r.layers]

\* Network::from_weights: panics on a topology of fewer than two layers, on
\* too few weights, and ("got too many weights") on weights left over.
from_weights(layers, ws) ==
    IF Len(layers) <= 1 THEN [panic |-> TRUE, network |-> << >>]
    ELSE LET r == windows_from_weights(layers, 1, ws)
         IN  IF r.panic \/ r.rest # << >>
             THEN [panic |-> TRUE, network |-> << >>]
             ELSE [panic |-> FALSE, network |-> r.layers]

----------------------------------------------------------------------------
(* libs/simulation/src/eye.rs                                              *)

\* Eye::new: asserts the three values positive.
Eye_new(fov_range, fov_angle, cells) ==
    [panic |-> ~(fov_range > 0 /\ fov_angle > 0 /\ cells > 0),
     eye |-> [fov_range |-> fov_range, fov_angle |-> fov_angle, cells |-> cells]]

\* Eye::default()
Eye_default ==
    [fov_range |-> FOV_RANGE, fov_angle |-> FOV_ANGLE, cells |-> CELLS]

\* vec.norm() of vec = food.position - position.
food_dist(position, food) ==
    norm(food.position.x - position.x, food.position.y - position.y)

\* The bearing of the food against the animal's heading, wrapped into
\* [-PI, PI].
food_angle(position, rotation, food) ==
    wrap(rotation_between_y(food.position.x - position.x,
                            food.position.y - position.y) - rotation, -PI, PI)

\* Neither `continue` of the loop is taken.
food_visible(eye, position, rotation, food) ==
    LET angle == food_angle(position, rotation, food)
    IN  /\ ~(food_dist(position, food) >= eye.fov_range)
        /\ ~(angle < -(eye.fov_angle \div 2) \/ angle > eye.fov_angle \div 2)

\* A cell index that is not held to cells - 1.
food_cell_unclamped(eye, position, rotation, food) ==
    LET angle == food_angle(position, rotation, food) + eye.fov_angle \div 2
        cell  == FDiv(angle, eye.fov_angle) * eye.cells
    IN  cell \div ONE

\* The index (from 0) of the cell a visible food falls in:
\* ((angle + fov_angle / 2) / fov_angle * cells) as usize, at most cells - 1.
food_cell(eye, position, rotation, food) ==
    LET angle == food_angle(position, rotation, food) + eye.fov_angle \div 2
        cell  == FDiv(angle, eye.fov_angle) * eye.cells
    IN  Min(cell \div ONE, eye.cells - 1)

\* (fov_range - dist) / fov_range
food_energy(eye, position, food) ==
    FDiv(eye.fov_range - food_dist(position, food), eye.fov_range)

RECURSIVE vision_loop_overwriting(_, _, _, _, _, _)
\* A loop that stores the energy of a food in its cell instead of adding it.
vision_loop_overwriting(eye, position, rotation, foods, i, cells) ==
    IF i > Len(foods) THEN cells
    ELSE IF ~food_visible(eye, position, rotation, foods[i])
    THEN vision_loop_overwriting(eye, position, rotation, foods, i + 1, cells)
    ELSE LET c == food_cell(eye, position, rotation, foods[i]) + 1
         IN  vision_loop_overwriting(eye, position, rotation, foods, i + 1,
                 [cells EXCEPT ![c] = food_energy(eye, position, foods[i])])

RECURSIVE vision_loop(_, _, _, _, _, _)
\* The loop over the foods from food i on, cells being the vector so far
\* (cell c of the program is cells[c + 1]).
vision_loop(eye, position, rotation, foods, i, cells) ==
    IF i > Len(foods) THEN cells
    ELSE IF ~food_visible(eye, position, rotation, foods[i])
    THEN vision_loop(eye, position, rotation, foods, i + 1, cells)
    ELSE LET c == food_cell(eye, position, rotation, foods[i]) + 1
         IN  vision_loop(eye, position, rotation, foods, i + 1,
                 [cells EXCEPT ![c] = @ + food_energy(eye, position, foods[i])])

\* Eye::process_vision
process_vision(eye, position, rotation, foods) ==
    vision_loop(eye, position, rotation, foods, 1, [c \in 1..eye.cells |-> 0])

----------------------------------------------------------------------------
(* libs/simulation: the state of a Simulation.                             *)

VARIABLES
    animals,    \* self.world.animals: sequence of Animal records
    foods,      \* self.world.foods: sequence of Food records
    age,        \* self.age
    satiation,  \* the per-animal counter of the data model (see below)
    calls,      \* history: calls to Simulation::step made so far
    panicked,   \* history: the last call to step unwound with a panic
    eaten,      \* history: per animal, the pairs found within EAT_DIST
    evolved     \* history: the numbers of the calls that entered evolve

sim_vars == << animals, foods, age, satiation, calls, panicked, eaten, evolved >>

\* The network shape Animal::random builds: eye.cells() inputs,
\* 2 * eye.cells() hidden neurons, 2 outputs.
Topology(eye) == << eye.cells, 2 * eye.cells, 2 >>

\* How many weights a topology takes: 1 + input width for every neuron.
RECURSIVE weight_count(_, _)
weight_count(layers, w) ==
    IF w >= Len(layers) THEN 0
    ELSE layers[w + 1] * (1 + layers[w]) + weight_count(layers, w + 1)

(* Brains the model lets Network::random draw (every bias and weight of    *)
(* each lies in [-1, 1], as Neuron::random draws them).  With h the hidden *)
(* neuron and c the input cell:                                            *)
(*   still : every bias -1, every weight 0: both outputs are max(0, -1).   *)
(*   bias  : outputs 0.001 (speed) and pi / 8 (rotation) whatever is seen. *)
(*   vision: hidden neuron h copies cell (h - 1) mod CELLS; the speed      *)
(*           output is 0.001 * the energy seen, the rotation output is     *)
(*           the energy seen.                                              *)
BrainGene(kind, i) ==
    LET in  == CELLS
        hid == 2 * CELLS
        nh  == hid * (1 + in)              \* genes of the hidden layer
        h   == ((i - 1) \div (1 + in)) + 1  \* hidden neuron of gene i
        c   == ((i - 1) % (1 + in))         \* 0 = bias, else input cell
        o   == ((i - nh - 1) \div (1 + hid)) + 1   \* output neuron
        j   == ((i - nh - 1) % (1 + hid))   \* 0 = bias, else hidden neuron
    IN  CASE kind = "still" -> IF i <= nh THEN (IF c = 0 THEN -ONE ELSE 0)
                               ELSE (IF j = 0 THEN -ONE ELSE 0)
          [] kind = "bias" -> IF i <= nh THEN 0
                              ELSE IF j # 0 THEN 0
                              ELSE IF o = 1 THEN SPEED_MIN ELSE ANGLE_STEP
          [] kind = "vision" ->
                IF i <= nh THEN (IF c # 0 /\ c = ((h - 1) % in) + 1 THEN ONE ELSE 0)
                ELSE IF j = 0 THEN 0
                ELSE IF o = 1 THEN (IF j <= in THEN 10 ELSE 0)
                ELSE (IF j > in THEN ONE ELSE 0)

Brain(kind) ==
    from_weights(Topology(Eye_default),
        [i \in 1..weight_count(Topology(Eye_default), 1) |-> BrainGene(kind, i)]).network

Point(px, py) == [x |-> px, y |-> py]

\* What Animal::random may draw (position, rotation, brain): an animal
\* below the upper edge heading up (+y) that steers by what it sees, and
\* one above the lower edge heading down (-y) that accelerates and turns
\* whatever it sees, and one heading left (-x) whose neurons all have a
\* negative bias.
AnimalDraws ==
    { [position |-> Point(5000, 9960), rotation |-> 0, brain |-> "vision"],
      [position |-> Point(5000, 30), rotation |-> PI, brain |-> "bias"],
      [position |-> Point(8000, 5000), rotation |-> FRAC_PI_2, brain |-> "still"] }

\* Positions rng.gen() may give a food, at construction and on relocation:
\* one just below the upper edge (within EAT_DIST of the first pose), one
\* out of reach and out of sight of both animals.
RngPoints == { Point(5000, 9990), Point(2000, 5000) }

\* Animal::random
Animal_random ==
    { [position |-> d.position, rotation |-> d.rotation, speed |-> INIT_SPEED,
       eye |-> Eye_default, brain |-> Brain(d.brain)] : d \in AnimalDraws }

\* Food::random
Food_random == { [position |-> p] : p \in RngPoints }

----------------------------------------------------------------------------
(* Simulation::step and its passes.                                        *)

RECURSIVE collide(_, _, _, _)
\* The nested loops of process_collisions from pair k on (animal outer,
\* food inner): every relocation is one rng.gen().  The result is the set
\* of outcomes the draws allow; hits counts, per animal, the pairs found
\* within EAT_DIST.
collide(an, fo, k, hits) ==
    IF k >= Len(an) * Len(fo) THEN { [foods |-> fo, hits |-> hits] }
    ELSE LET a == (k \div Len(fo)) + 1
             f == (k % Len(fo)) + 1
         IN  IF distance(an[a].position, fo[f].position) <= EAT_DIST
             THEN UNION { collide(an, [fo EXCEPT ![f].position = p], k + 1,
                                  [hits EXCEPT ![a] = @ + 1]) : p \in RngPoints }
             ELSE collide(an, fo, k + 1, hits)

\* A collision pass that removes the food eaten instead of relocating it.
process_collisions_removing(an, fo) ==
    LET near(f) == \E a \in 1..Len(an) :
                       distance(an[a].position, f.position) <= EAT_DIST
    IN  { [foods |-> SelectSeq(fo, LAMBDA f : ~near(f)),
           hits |-> [a \in 1..Len(an) |->
                       Cardinality({f \in 1..Len(fo) :
                           distance(an[a].position, fo[f].position) <= EAT_DIST})]] }

\* Simulation::process_collisions
process_collisions(an, fo) == collide(an, fo, 0, [a \in 1..Len(an) |-> 0])

\* The body of the loop of process_brains for one animal, the speed being
\* clamped to [lo, hi].
brain_step(animal, fo, lo, hi) ==
    LET vision   == process_vision(animal.eye, animal.position, animal.rotation, fo)
        response == propogate(animal.brain, vision)
        speed    == clamp(response[1], -SPEED_ACCEL, SPEED_ACCEL)
        rotation == clamp(response[2], -ROTATION_ACCEL, ROTATION_ACCEL)
    IN  [animal EXCEPT !.speed = clamp(animal.speed + speed, lo, hi),
                       !.rotation = Rotation2(animal.rotation + rotation)]

\* A brain pass that forgets the upper limit of the speed.
process_brains_unlimited(an, fo) ==
    [a \in 1..Len(an) |-> brain_step(an[a], fo, SPEED_MIN, SPEED_MAX + SPEED_ACCEL)]

\* Simulation::process_brains
process_brains(an, fo) ==
    [a \in 1..Len(an) |-> brain_step(an[a], fo, SPEED_MIN, SPEED_MAX)]

\* Simulation::process_movements: position += rotation * (0, speed), then
\* each coordinate wrapped.
process_movements(an) ==
    [a \in 1..Len(an) |->
        [an[a] EXCEPT
            !.position = Point(
                wrap(an[a].position.x + FMul(-Sin(an[a].rotation), an[a].speed), 0, ONE),
                wrap(an[a].position.y + FMul(Cos(an[a].rotation), an[a].speed), 0, ONE))]]

\* Simulation::evolve: resets the age, then reaches todo!() (line 124),
\* which panics: nothing after it runs, the animals and the foods stay as
\* the passes left them.
evolve(an, fo) ==
    [animals |-> an, foods |-> fo, age |-> 0, panic |-> TRUE]

\* The three passes of a step with the brains run before the collisions.
passes_brains_first(an, fo) ==
    { [animals |-> process_movements(process_brains(an, fo)),
       foods |-> c.foods, hits |-> c.hits] : c \in process_collisions(an, fo) }

\* Simulation::step, lines 69-71: the collision pass, the brain pass on
\* the foods it left, the movement pass on the animals the brains left.
passes(an, fo) ==
    { [animals |-> process_movements(process_brains(an, c.foods)),
       foods |-> c.foods, hits |-> c.hits] : c \in process_collisions(an, fo) }

\* Simulation::step, lines 73-77, with the age counter compared to limit.
age_step(w, ag, limit) ==
    IF ag + 1 > limit
    THEN evolve(w.animals, w.foods)
    ELSE [animals |-> w.animals, foods |-> w.foods, age |-> ag + 1, panic |-> FALSE]

\* A step whose generation ends when the age reaches GENERATION_LENGTH.
step_at_reaching(an, fo, ag) ==
    { [new |-> age_step(w, ag, GENERATION_LENGTH - 1), hits |-> w.hits] : w \in passes(an, fo) }

\* Simulation::step: the outcomes of one call.
step(an, fo, ag) ==
    { [new |-> age_step(w, ag, GENERATION_LENGTH), hits |-> w.hits] : w \in passes(an, fo) }

----------------------------------------------------------------------------
(* libs/genetic-algorithm: one call to GeneticAlgorithm::evolve, operation *)
(* by operation.  The individuals are the TestIndividual::WithCromosome of *)
(* the crate's tests: fitness = the sum of the genes.                      *)

VARIABLES
    population,       \* the argument of evolve
    new_population,   \* the offspring collected so far
    parent_a,         \* locals of the closure of evolve
    parent_b,
    child,
    stats,            \* the Statistics of the call
    mutation_method,  \* the GaussianMutation of the algorithm
    ga_pc,            \* the statement of evolve to run next
    ga_trace,         \* history: the operations run, with their slot
    ga_input          \* history: the population evolve was called with

ga_vars == << population, new_population, parent_a, parent_b, child, stats,
              mutation_method, ga_pc, ga_trace, ga_input >>

VARIABLES
    rng_seed,    \* the seed of the generator: the values it gives, repeated
    rng_pos,     \* how many values the generator has given in this run
    run_no,      \* 1: the first run from the seed; 2: the run repeated
    generation,  \* calls to evolve completed in this run
    run_log,     \* history: what every operation of this run left
    first_log    \* history: run_log of the first run, once it has ended

det_vars == << rng_seed, rng_pos, run_no, generation, run_log, first_log >>

VARIABLES
    fn_op,    \* the operation applied to an input drawn for it
    fn_arg,   \* its argument
    fn_res    \* its result, once it has been applied

fn_vars == << fn_op, fn_arg, fn_res >>

vars == << sim_vars, ga_vars, det_vars, fn_vars >>

\* No generator is being replayed.
DetIdle ==
    /\ rng_seed = << >>
    /\ rng_pos = 0
    /\ run_no = 0
    /\ generation = 0
    /\ run_log = << >>
    /\ first_log = << >>

\* No operation is being applied on its own.
FnIdle ==
    /\ fn_op = "idle"
    /\ fn_arg = << >>
    /\ fn_res = << >>

\* No Simulation has been built.
SimIdle ==
    /\ animals = << >>
    /\ foods = << >>
    /\ age = 0
    /\ satiation = << >>
    /\ calls = 0
    /\ panicked = FALSE
    /\ eaten = << >>
    /\ evolved = {}

\* Largest population evolve is called with.
MaxPopulation == 2

RECURSIVE sum(_)
\* iter().sum()
sum(seq) == IF seq = << >> THEN 0 ELSE Head(seq) + sum(Tail(seq))

\* TestIndividual::create
create(chromosome) == [chromosome |-> chromosome]

\* TestIndividual::fitness
fitness(individual) == sum(individual.chromosome)

\* TestIndividual::chromosome
chromosome(individual) == individual.chromosome

total_fitness(pop) == sum([i \in 1..Len(pop) |-> fitness(pop[i])])

\* RouletteWheelSelection::select panics on the Err of choose_weighted:
\* an empty slice, a negative weight, or weights that sum to zero.
select_panics(pop) ==
    \/ pop = << >>
    \/ \E i \in 1..Len(pop) : fitness(pop[i]) < 0
    \/ total_fitness(pop) = 0

\* The indices choose_weighted may return: one uniform draw from
\* [0, total) falls in the span of a member of positive weight.
select(pop) == { i \in 1..Len(pop) : fitness(pop[i]) > 0 }

\* UniformCrossover::crossover panics when the lengths differ.
crossover_panics(a, b) == Len(a) # Len(b)

\* A crossover that loses the last gene.
crossover_short(a, b, coins) ==
    [i \in 1..(Len(a) - 1) |-> IF coins[i] THEN a[i] ELSE b[i]]

\* A crossover that decides every gene by the first coin.
crossover_one_coin(a, b, coins) ==
    [i \in 1..Len(a) |-> IF coins[1] THEN a[i] ELSE b[i]]

\* UniformCrossover::crossover: gene i is parent_a's when the i-th
\* gen_bool(0.5) is true, else parent_b's.
crossover(a, b, coins) ==
    [i \in 1..Len(a) |-> IF coins[i] THEN a[i] ELSE b[i]]

\* Values of rng.gen::<f32>(), which lies in [0, 1).
Uniform01 == { ONE \div 2 }

\* What the draws of one iteration of the loop of mutate may be: the sign,
\* whether gen_bool(chance) is true, and the magnitude drawn when it is.
MutationDraws(chance) ==
    { [sign |-> sg, hit |-> h, u |-> u] :
        sg \in {-1, 1},
        h \in { b \in BOOLEAN : (chance = 0 => ~b) /\ (chance = ONE => b) },
        u \in Uniform01 }

\* A mutation that perturbs every gene, whatever its gen_bool(chance) gave.
mutate_every_gene(method, genes, draws) ==
    [i \in 1..Len(genes) |->
        f32_plus(genes[i], FMul(draws[i].sign * method.coeff, draws[i].u))]

\* GaussianMutation::mutate: *gene += sign * coeff * rng.gen() for every
\* gene whose gen_bool(chance) is true.  The sum is rounded as f32 rounds
\* it (the genes evolved above stay below 2^24 units, where it is exact).
mutate(method, genes, draws) ==
    [i \in 1..Len(genes) |->
        IF draws[i].hit
        THEN f32_plus(genes[i], FMul(draws[i].sign * method.coeff, draws[i].u))
        ELSE genes[i]]

RECURSIVE fold_min(_, _, _)
fold_min(pop, i, m) ==
    IF i > Len(pop) THEN m ELSE fold_min(pop, i + 1, Min(m, fitness(pop[i])))

RECURSIVE fold_max(_, _, _)
fold_max(pop, i, m) ==
    IF i > Len(pop) THEN m ELSE fold_max(pop, i + 1, Max(m, fitness(pop[i])))

\* Statistics::new (of a non-empty population).
Statistics_new(pop) ==
    [min_fitness |-> fold_min(pop, 1, fitness(pop[1])),
     max_fitness |-> fold_max(pop, 1, fitness(pop[1])),
     avg_fitness |-> FDiv(total_fitness(pop), Len(pop) * ONE)]

\* The statement of the closure of evolve that follows statement pc,
\* without the mutation.
evolve_next_unmutated(pc) ==
    CASE pc = "select_a" -> "select_b"
      [] pc = "select_b" -> "crossover"
      [] pc = "crossover" -> "create"
      [] pc = "mutate" -> "create"

\* The statement of the closure of evolve (lines 35-42) that follows
\* statement pc.
evolve_next(pc) ==
    CASE pc = "select_a" -> "select_b"
      [] pc = "select_b" -> "crossover"
      [] pc = "crossover" -> "mutate"
      [] pc = "mutate" -> "create"

\* The slot (from 0) the closure is filling.
slot == Len(new_population)

\* The member i of a population of the model: a chromosome of two genes.
Member(kind, i) ==
    CASE kind = "zero" -> create(<< 0, 0 >>)
      [] kind = "ramp" -> create(<< (i - 1) * ONE, (i - 1) * ONE >>)
      [] kind = "mixed" -> create(IF i % 2 = 1 THEN << ONE, 0 >> ELSE << 0, 2 * ONE >>)

\* The populations evolve is called with: of fitness zero throughout; with
\* a first member of fitness zero; of positive fitness throughout.
Populations ==
    { [i \in 1..n |-> Member(kind, i)] :
        n \in 1..MaxPopulation, kind \in {"zero", "ramp", "mixed"} }

\* GaussianMutation::new(chance, coeff): those of the crate's tests.
Mutations ==
    { [chance |-> c, coeff |-> ONE \div 2] : c \in {0, ONE \div 2, ONE} }

NoChromosome == << >>

NoStatistics == [min_fitness |-> 0, max_fitness |-> 0, avg_fitness |-> 0]

\* The GeneticAlgorithm is not running (the simulation's specification).
GaIdle ==
    /\ population = << >>
    /\ new_population = << >>
    /\ parent_a = NoChromosome
    /\ parent_b = NoChromosome
    /\ child = NoChromosome
    /\ stats = NoStatistics
    /\ mutation_method = [chance |-> 0, coeff |-> 0]
    /\ ga_pc = "idle"
    /\ ga_trace = << >>
    /\ ga_input = << >>

\* evolve(rng, population) has been called; the assert of line 31 holds.
GaCall ==
    /\ population \in Populations
    /\ ga_input = population
    /\ mutation_method \in Mutations
    /\ new_population = << >>
    /\ parent_a = NoChromosome
    /\ parent_b = NoChromosome
    /\ child = NoChromosome
    /\ stats = NoStatistics
    /\ ga_pc = "select_a"
    /\ ga_trace = << >>

\* line 35: parent_a = select(rng, population).chromosome()
GaSelectA ==
    /\ ga_pc = "select_a"
    /\ IF select_panics(population)
       THEN ga_pc' = "panic" /\ UNCHANGED parent_a
       ELSE /\ \E i \in select(population) : parent_a' = chromosome(population[i])
            /\ ga_pc' = evolve_next(ga_pc)
    /\ ga_trace' = Append(ga_trace, << "select_a", slot >>)
    /\ UNCHANGED << population, new_population, parent_b, child, stats,
                    mutation_method, ga_input >>

\* line 36: parent_b = select(rng, population).chromosome()
GaSelectB ==
    /\ ga_pc = "select_b"
    /\ IF select_panics(population)
       THEN ga_pc' = "panic" /\ UNCHANGED parent_b
       ELSE /\ \E i \in select(population) : parent_b' = chromosome(population[i])
            /\ ga_pc' = evolve_next(ga_pc)
    /\ ga_trace' = Append(ga_trace, << "select_b", slot >>)
    /\ UNCHANGED << population, new_population, parent_a, child, stats,
                    mutation_method, ga_input >>

\* line 38: child = crossover(rng, parent_a, parent_b)
GaCrossover ==
    /\ ga_pc = "crossover"
    /\ IF crossover_panics(parent_a, parent_b)
       THEN ga_pc' = "panic" /\ UNCHANGED child
       ELSE /\ \E coins \in [1..Len(parent_a) -> BOOLEAN] :
                   child' = crossover(parent_a, parent_b, coins)
            /\ ga_pc' = evolve_next(ga_pc)
    /\ ga_trace' = Append(ga_trace, << "crossover", slot >>)
    /\ UNCHANGED << population, new_population, parent_a, parent_b, stats,
                    mutation_method, ga_input >>

\* line 40: mutate(rng, &mut child)
GaMutate ==
    /\ ga_pc = "mutate"
    /\ \E draws \in [1..Len(child) -> MutationDraws(mutation_method.chance)] :
          child' = mutate(mutation_method, child, draws)
    /\ ga_pc' = evolve_next(ga_pc)
    /\ ga_trace' = Append(ga_trace, << "mutate", slot >>)
    /\ UNCHANGED << population, new_population, parent_a, parent_b, stats,
                    mutation_method, ga_input >>

\* line 42: I::create(child), collected into new_population; the map runs
\* once for every index of 0..population.len().
GaCreate ==
    /\ ga_pc = "create"
    /\ new_population' = Append(new_population, create(child))
    /\ ga_pc' = IF Len(new_population) + 1 < Len(population)
                THEN "select_a" ELSE "stats"
    /\ ga_trace' = Append(ga_trace, << "create", slot >>)
    /\ UNCHANGED << population, parent_a, parent_b, child, stats,
                    mutation_method, ga_input >>

\* lines 46-48: stats = Statistics::new(population); return.
GaStatistics ==
    /\ ga_pc = "stats"
    /\ stats' = Statistics_new(population)
    /\ ga_pc' = "done"
    /\ UNCHANGED << population, new_population, parent_a, parent_b, child,
                    mutation_method, ga_trace, ga_input >>

\* Simulation::random: World::random and age 0.  No animal has eaten.
Init ==
    /\ animals \in [1..NumAnimals -> Animal_random]
    /\ foods \in [1..NumFoods -> Food_random]
    /\ age = 0
    /\ satiation = [a \in 1..NumAnimals |-> 0]
    /\ calls = 0
    /\ panicked = FALSE
    /\ eaten = [a \in 1..NumAnimals |-> 0]
    /\ evolved = {}
    /\ GaIdle
    /\ DetIdle
    /\ FnIdle

\* One call to Simulation::step(rng).  A call that panics leaves the state
\* it had reached (a caller that catches the unwind can call again).
Step ==
    /\ calls < MaxCalls
    /\ \E o \in step(animals, foods, age) :
          /\ animals' = o.new.animals
          /\ foods' = o.new.foods
          /\ age' = o.new.age
          /\ panicked' = o.new.panic
          /\ eaten' = [a \in 1..Len(animals) |-> eaten[a] + o.hits[a]]
          /\ evolved' = IF o.new.panic THEN evolved \cup {calls + 1} ELSE evolved
    /\ calls' = calls + 1
    /\ UNCHANGED << satiation, ga_vars, det_vars, fn_vars >>

Next == Step

Spec == Init /\ [][Next]_vars

\* One call to GeneticAlgorithm::evolve; no Simulation is stepped.
GaInit ==
    /\ GaCall
    /\ SimIdle
    /\ DetIdle
    /\ FnIdle

GaNext ==
    \/ GaSelectA /\ UNCHANGED << sim_vars, det_vars, fn_vars >>
    \/ GaSelectB /\ UNCHANGED << sim_vars, det_vars, fn_vars >>
    \/ GaCrossover /\ UNCHANGED << sim_vars, det_vars, fn_vars >>
    \/ GaMutate /\ UNCHANGED << sim_vars, det_vars, fn_vars >>
    \/ GaCreate /\ UNCHANGED << sim_vars, det_vars, fn_vars >>
    \/ GaStatistics /\ UNCHANGED << sim_vars, det_vars, fn_vars >>

GaSpec == GaInit /\ [][GaNext]_vars

----------------------------------------------------------------------------
(* GeneticAlgorithm::evolve driven by a seeded generator, run twice from   *)
(* the same seed (as tests::genetic_algorithm drives it: the population    *)
(* returned is evolved again).                                             *)

\* Values the generator gives: uniform draws of [0, 1), in units of 1/ONE.
RawValues == { 2000, 7000 }

\* Length of a seed (the generator repeats it).
SeedLen == 4

\* Calls to evolve in one run.
MaxGenerations == 2

Seeds == [1..SeedLen -> RawValues]

\* The k-th value (from 0) of the generator seeded with seed.
rng_gen(seed, k) == seed[(k % Len(seed)) + 1]

\* rng.gen_bool(p) on the draw u; gen_bool(1.0) is true and draws nothing.
gen_bool(p, u) == p = ONE \/ u < p

\* How many values gen_bool(p) draws.
gen_bool_draws(p) == IF p = ONE THEN 0 ELSE 1

RECURSIVE weighted_index(_, _, _, _)
\* The first member whose cumulative weight exceeds the target.
weighted_index(pop, i, acc, target) ==
    IF i >= Len(pop) \/ acc + fitness(pop[i]) > target THEN i
    ELSE weighted_index(pop, i + 1, acc + fitness(pop[i]), target)

\* A selection that draws from a generator of its own, not the one passed.
select_with_own_rng(pop, u) == select(pop)

\* The members choose_weighted(rng, fitness) can return when the generator
\* passed to it gives u: the one whose span of [0, total) holds u * total.
select_with(pop, u) ==
    { weighted_index(pop, 1, 0, FMul(u, total_fitness(pop))) }

\* The coins of UniformCrossover::crossover: one gen_bool(0.5) per gene.
crossover_coins(seed, pos, len) ==
    [i \in 1..len |-> gen_bool(ONE \div 2, rng_gen(seed, pos + i - 1))]

RECURSIVE mutate_draws(_, _, _, _, _)
\* The draws of GaussianMutation::mutate from position pos on, gene by
\* gene: the sign, the gen_bool(chance), and the magnitude only when that
\* is true.  draws is what was drawn for the genes so far.
mutate_draws(seed, pos, chance, len, draws) ==
    IF Len(draws) >= len THEN [draws |-> draws, pos |-> pos]
    ELSE LET sign == IF gen_bool(ONE \div 2, rng_gen(seed, pos)) THEN -1 ELSE 1
             hit  == gen_bool(chance, rng_gen(seed, pos + 1))
             p2   == pos + 1 + gen_bool_draws(chance)
         IN  mutate_draws(seed, IF hit THEN p2 + 1 ELSE p2, chance, len,
                 Append(draws, [sign |-> sign, hit |-> hit,
                                u |-> IF hit THEN rng_gen(seed, p2) ELSE 0]))

\* What an operation of the run left.
Snapshot(op, pos) ==
    [op |-> op, pos |-> pos, generation |-> generation,
     parent_a |-> parent_a', parent_b |-> parent_b', child |-> child',
     new_population |-> new_population', pc |-> ga_pc']

\* The first run begins: evolve(rng, population) with rng just seeded.
DetInit ==
    /\ GaCall
    /\ rng_seed \in Seeds
    /\ rng_pos = 0
    /\ run_no = 1
    /\ generation = 0
    /\ run_log = << >>
    /\ first_log = << >>
    /\ SimIdle
    /\ FnIdle

DetSelectA ==
    /\ ga_pc = "select_a"
    /\ IF select_panics(population)
       THEN ga_pc' = "panic" /\ UNCHANGED << parent_a, rng_pos >>
       ELSE /\ \E i \in select_with(population, rng_gen(rng_seed, rng_pos)) :
                   parent_a' = chromosome(population[i])
            /\ rng_pos' = rng_pos + 1
            /\ ga_pc' = evolve_next(ga_pc)
    /\ ga_trace' = Append(ga_trace, << "select_a", slot >>)
    /\ UNCHANGED << population, new_population, parent_b, child, stats,
                    mutation_method, ga_input >>
    /\ UNCHANGED << rng_seed, run_no, generation, first_log >>
    /\ run_log' = Append(run_log, Snapshot("select_a", rng_pos'))

DetSelectB ==
    /\ ga_pc = "select_b"
    /\ IF select_panics(population)
       THEN ga_pc' = "panic" /\ UNCHANGED << parent_b, rng_pos >>
       ELSE /\ \E i \in select_with(population, rng_gen(rng_seed, rng_pos)) :
                   parent_b' = chromosome(population[i])
            /\ rng_pos' = rng_pos + 1
            /\ ga_pc' = evolve_next(ga_pc)
    /\ ga_trace' = Append(ga_trace, << "select_b", slot >>)
    /\ UNCHANGED << population, new_population, parent_a, child, stats,
                    mutation_method, ga_input >>
    /\ UNCHANGED << rng_seed, run_no, generation, first_log >>
    /\ run_log' = Append(run_log, Snapshot("select_b", rng_pos'))

DetCrossover ==
    /\ ga_pc = "crossover"
    /\ IF crossover_panics(parent_a, parent_b)
       THEN ga_pc' = "panic" /\ UNCHANGED << child, rng_pos >>
       ELSE /\ child' = crossover(parent_a, parent_b,
                            crossover_coins(rng_seed, rng_pos, Len(parent_a)))
            /\ rng_pos' = rng_pos + Len(parent_a)
            /\ ga_pc' = evolve_next(ga_pc)
    /\ ga_trace' = Append(ga_trace, << "crossover", slot >>)
    /\ UNCHANGED << population, new_population, parent_a, parent_b, stats,
                    mutation_method, ga_input >>
    /\ UNCHANGED << rng_seed, run_no, generation, first_log >>
    /\ run_log' = Append(run_log, Snapshot("crossover", rng_pos'))

DetMutate ==
    /\ ga_pc = "mutate"
    /\ LET d == mutate_draws(rng_seed, rng_pos, mutation_method.chance,
                             Len(child), << >>)
       IN  /\ child' = mutate(mutation_method, child, d.draws)
           /\ rng_pos' = d.pos
    /\ ga_pc' = evolve_next(ga_pc)
    /\ ga_trace' = Append(ga_trace, << "mutate", slot >>)
    /\ UNCHANGED << population, new_population, parent_a, parent_b, stats,
                    mutation_method, ga_input >>
    /\ UNCHANGED << rng_seed, run_no, generation, first_log >>
    /\ run_log' = Append(run_log, Snapshot("mutate", rng_pos'))

DetCreate ==
    /\ GaCreate
    /\ run_log' = Append(run_log, Snapshot("create", rng_pos))
    /\ UNCHANGED << rng_seed, rng_pos, run_no, generation, first_log >>

DetStatistics ==
    /\ GaStatistics
    /\ run_log' = Append(run_log, Snapshot("stats", rng_pos))
    /\ UNCHANGED << rng_seed, rng_pos, run_no, generation, first_log >>

\* population = ga.evolve(&mut rng, &population), once more.
DetEvolveAgain ==
    /\ ga_pc = "done"
    /\ generation + 1 < MaxGenerations
    /\ generation' = generation + 1
    /\ population' = new_population
    /\ new_population' = << >>
    /\ ga_pc' = "select_a"
    /\ ga_trace' = << >>
    /\ UNCHANGED << parent_a, parent_b, child, stats, mutation_method, ga_input >>
    /\ UNCHANGED << rng_seed, rng_pos, run_no, run_log, first_log >>

\* The run has ended: its last evolve returned or one of them panicked.
RunEnded ==
    \/ ga_pc = "panic"
    \/ ga_pc = "done" /\ generation + 1 >= MaxGenerations

\* The second run begins: the generator is seeded again with the same seed
\* and evolve is given the same population and the same parameters.
DetRepeat ==
    /\ run_no = 1
    /\ RunEnded
    /\ run_no' = 2
    /\ first_log' = run_log
    /\ run_log' = << >>
    /\ rng_pos' = 0
    /\ generation' = 0
    /\ population' = ga_input
    /\ new_population' = << >>
    /\ parent_a' = NoChromosome
    /\ parent_b' = NoChromosome
    /\ child' = NoChromosome
    /\ stats' = NoStatistics
    /\ ga_pc' = "select_a"
    /\ ga_trace' = << >>
    /\ UNCHANGED << rng_seed, mutation_method, ga_input >>

DetNext ==
    \/ DetSelectA /\ UNCHANGED << sim_vars, fn_vars >>
    \/ DetSelectB /\ UNCHANGED << sim_vars, fn_vars >>
    \/ DetCrossover /\ UNCHANGED << sim_vars, fn_vars >>
    \/ DetMutate /\ UNCHANGED << sim_vars, fn_vars >>
    \/ DetCreate /\ UNCHANGED << sim_vars, fn_vars >>
    \/ DetStatistics /\ UNCHANGED << sim_vars, fn_vars >>
    \/ DetEvolveAgain /\ UNCHANGED << sim_vars, fn_vars >>
    \/ DetRepeat /\ UNCHANGED << sim_vars, fn_vars >>

DetSpec == DetInit /\ [][DetNext]_vars

----------------------------------------------------------------------------
(* Operations applied on their own to arguments drawn for them.            *)

\* The result of an operation not yet applied.
NotApplied == << >>

Applied(op) == fn_op = op /\ fn_res # NotApplied

\* TestIndividual::new(fitness)
WithFitness(f) == [fitness |-> f]

RECURSIVE sum_fitness(_, _, _)
\* sum_fitness += fitness, member by member, from 0.0.
sum_fitness(pop, i, acc) ==
    IF i > Len(pop) THEN acc
    ELSE sum_fitness(pop, i + 1, f32_add(acc, pop[i].fitness))

RECURSIVE exact_sum(_, _)
\* The sum of the fitness of the members, without rounding.
exact_sum(pop, i) ==
    IF i > Len(pop) THEN 0 ELSE pop[i].fitness + exact_sum(pop, i + 1)

RECURSIVE fold_fitness(_, _, _, _)
\* min_fitness = min_fitness.min(fitness) (or max), member by member.
fold_fitness(pop, i, m, least) ==
    IF i > Len(pop) THEN m
    ELSE fold_fitness(pop, i + 1,
             IF least THEN Min(m, pop[i].fitness) ELSE Max(m, pop[i].fitness),
             least)

\* Statistics::new in f32, of individuals TestIndividual::WithFitness.
Statistics_new_f32(pop) ==
    [min_fitness |-> fold_fitness(pop, 1, pop[1].fitness, TRUE),
     max_fitness |-> fold_fitness(pop, 1, pop[1].fitness, FALSE),
     avg_fitness |-> f32_div(sum_fitness(pop, 1, 0), Len(pop))]

\* An evolve whose statistics are those of the offspring.
evolve_statistics_of_offspring(pop, offspring) == Statistics_new_f32(offspring)

\* GeneticAlgorithm::evolve, lines 46-48: the statistics returned with the
\* offspring.
evolve_statistics(pop, offspring) == Statistics_new_f32(pop)

\* Largest population whose statistics are taken.
MaxStatistics == 3

\* Fitness values: 0.5, 0.93859589 (three of which do not add up exactly
\* in f32), 1.0, 2.0.
FitnessValues == { F32_ONE \div 2, 15747026, F32_ONE, 2 * F32_ONE }

StatisticsArgs ==
    { [population |-> [i \in 1..n |-> WithFitness(f[i])],
       offspring |-> [i \in 1..n |-> WithFitness(3 * F32_ONE)]] :
          n \in 1..MaxStatistics, f \in [1..MaxStatistics -> FitnessValues] }

FnStatistics ==
    /\ fn_op = "statistics"
    /\ fn_res = NotApplied
    /\ fn_res' = << evolve_statistics(fn_arg.population, fn_arg.offspring) >>
    /\ UNCHANGED << fn_op, fn_arg >>

\* Topologies of the networks built: input width, then the neuron counts.
Topologies ==
    { << 1, 1 >>, << 2, 1 >>, << 1, 2 >>, << 1, 0, 1 >>, << 2, 2, 1 >> }

\* Values of a bias or a weight.
WeightValues == { -ONE, ONE \div 2 }

\* Neuron::random: a bias and input_size weights.
Neuron_random(input_size) ==
    [bias : WeightValues, weights : [1..input_size -> WeightValues]]

\* Layer::random: output_size neurons.
Layer_random(input_size, output_size) ==
    [1..output_size -> Neuron_random(input_size)]

\* Network::random: one layer per window of two of the topology.
Network_random(layers) ==
    IF Len(layers) = 2
    THEN { << l1 >> : l1 \in Layer_random(layers[1], layers[2]) }
    ELSE { << l1, l2 >> : l1 \in Layer_random(layers[1], layers[2]),
                          l2 \in Layer_random(layers[2], layers[3]) }

RoundTripArgs ==
    UNION { { [layers |-> t, network |-> n] : n \in Network_random(t) } :
              t \in Topologies }

\* Network::from_weights(layers, network.weights())
FnRoundTrip ==
    /\ fn_op = "round_trip"
    /\ fn_res = NotApplied
    /\ fn_res' = << from_weights(fn_arg.layers, weights(fn_arg.network)) >>
    /\ UNCHANGED << fn_op, fn_arg >>

\* How many values more than the topology takes are offered.
MaxExtra == 2

\* The weights offered to from_weights: of every length up to MaxExtra more
\* than the topology takes, no two neighbours alike.
FromWeightsArgs ==
    UNION { { [layers |-> t,
               weights |-> [i \in 1..n |-> IF i % 2 = 1 THEN -ONE ELSE i * 100]] :
                 n \in 0..(weight_count(t, 1) + MaxExtra) } :
              t \in Topologies \cup { << 2 >> } }

\* Network::from_weights(layers, weights)
FnFromWeights ==
    /\ fn_op = "from_weights"
    /\ fn_res = NotApplied
    /\ fn_res' = << from_weights(fn_arg.layers, fn_arg.weights) >>
    /\ UNCHANGED << fn_op, fn_arg >>

\* Longest chromosome given to crossover or to mutate on its own.
MaxGenes == 3

\* UniformCrossover::crossover, with the assert of its first line.
UniformCrossover(a, b, coins) ==
    IF crossover_panics(a, b)
    THEN [panic |-> TRUE, child |-> NoChromosome]
    ELSE [panic |-> FALSE, child |-> crossover(a, b, coins)]

\* The parents of tests::uniform_crossover (genes 1, 2, .. and -1, -2, ..),
\* of every two lengths, and the gen_bool(0.5) of every gene.
CrossoverArgs ==
    UNION { { [parent_a |-> [i \in 1..la |-> i * ONE],
               parent_b |-> [i \in 1..lb |-> -i * ONE],
               coins |-> c] : c \in [1..la -> BOOLEAN] } :
              la \in 0..MaxGenes, lb \in 0..MaxGenes }

FnCrossover ==
    /\ fn_op = "crossover"
    /\ fn_res = NotApplied
    /\ fn_res' = << UniformCrossover(fn_arg.parent_a, fn_arg.parent_b, fn_arg.coins) >>
    /\ UNCHANGED << fn_op, fn_arg >>

\* GaussianMutation::new(chance, coeff) asserts 0 <= chance <= 1 and
\* nothing of coeff.  The coefficients are in the unit of the genes.
MutateMethods ==
    { [chance |-> c, coeff |-> k] : c \in {0, ONE \div 2, ONE}, k \in {0, 12, -12} }

\* What the draws of one gene may be; u is the value the generator gives
\* for the magnitude, 0.0 or 0.75, drawn or not.
MutateDraws(chance) ==
    { d \in [sign : {-1, 1}, hit : BOOLEAN, u : {0, (3 * ONE) \div 4}] :
        /\ (chance = 0 => ~d.hit)
        /\ (chance = ONE => d.hit) }

\* Chromosomes of small genes, and of genes of 2^27 units, where an f32
\* holds only the multiples of 16 units.
MutateGenes ==
    { [i \in 1..n |-> g] : n \in 0..MaxGenes, g \in {8, -16, 8 * F32_ONE} }

MutateArgs ==
    UNION { { [method |-> mm, genes |-> g, draws |-> d] :
                d \in [1..Len(g) -> MutateDraws(mm.chance)] } :
              mm \in MutateMethods, g \in MutateGenes }

\* GaussianMutation::new(chance, coeff).mutate(rng, child)
FnMutate ==
    /\ fn_op = "mutate"
    /\ fn_res = NotApplied
    /\ fn_res' = << mutate(fn_arg.method, fn_arg.genes, fn_arg.draws) >>
    /\ UNCHANGED << fn_op, fn_arg >>

\* Most foods in the list given to process_vision on its own.
MaxVisionFoods == 2

\* The valid eyes: the default one, a narrow one of three cells that sees
\* twice as far, and one of a single cell that sees all around.
Eyes ==
    { e.eye : e \in { n \in { Eye_new(FOV_RANGE, FOV_ANGLE, CELLS),
                              Eye_new(2 * FOV_RANGE, FRAC_PI_2, 3),
                              Eye_new(FOV_RANGE, 2 * PI, 1) } : ~n.panic } }

\* Headings of the animal, which stands in the middle of the world.
VisionRotations == { 0, FRAC_PI_4, -FRAC_PI_2, PI, -ANGLE_STEP }

\* Where a food may lie: ahead at 0.1 and at 0.2, at the animal's own
\* position, 45 degrees to either side, 90 degrees to the left, and behind
\* at 0.3.
VisionPoints ==
    { Point(5000, 6000), Point(5000, 7000), Point(5000, 5000),
      Point(4000, 6000), Point(6000, 6000), Point(4000, 5000),
      Point(5000, 2000) }

VisionArgs ==
    UNION { { [eye |-> e, position |-> Point(5000, 5000), rotation |-> r,
               foods |-> [i \in 1..n |-> [position |-> f[i]]]] :
                 e \in Eyes, r \in VisionRotations,
                 f \in [1..MaxVisionFoods -> VisionPoints] } :
              n \in 0..MaxVisionFoods }

\* eye.process_vision(position, rotation, &foods)
FnVision ==
    /\ fn_op = "vision"
    /\ fn_res = NotApplied
    /\ fn_res' = << process_vision(fn_arg.eye, fn_arg.position, fn_arg.rotation,
                                   fn_arg.foods) >>
    /\ UNCHANGED << fn_op, fn_arg >>

\* The operations and the arguments drawn for each.
FnArgs(op) ==
    CASE op = "statistics" -> StatisticsArgs
      [] op = "round_trip" -> RoundTripArgs
      [] op = "from_weights" -> FromWeightsArgs
      [] op = "crossover" -> CrossoverArgs
      [] op = "mutate" -> MutateArgs
      [] op = "vision" -> VisionArgs

FnOps == { "statistics", "round_trip", "from_weights", "crossover", "mutate", "vision" }

FnInit ==
    /\ fn_op \in FnOps
    /\ fn_arg \in FnArgs(fn_op)
    /\ fn_res = NotApplied
    /\ SimIdle
    /\ GaIdle
    /\ DetIdle

FnNext ==
    \/ FnStatistics /\ UNCHANGED << sim_vars, ga_vars, det_vars >>
    \/ FnRoundTrip /\ UNCHANGED << sim_vars, ga_vars, det_vars >>
    \/ FnFromWeights /\ UNCHANGED << sim_vars, ga_vars, det_vars >>
    \/ FnCrossover /\ UNCHANGED << sim_vars, ga_vars, det_vars >>
    \/ FnMutate /\ UNCHANGED << sim_vars, ga_vars, det_vars >>
    \/ FnVision /\ UNCHANGED << sim_vars, ga_vars, det_vars >>

FnSpec == FnInit /\ [][FnNext]_vars

----------------------------------------------------------------------------
(* Claims about Simulation::step, checked under Spec.                      *)

\* C1: every call to step runs the collision pass, then the brain pass,
\* then the movement pass, then the age increment and the conditional
\* evolve: the animals a step leaves are the movement pass applied to the
\* brain pass run on the foods as the step leaves them (the positions after
\* the collision pass), and evolve is entered in that same call exactly
\* when the incremented age exceeds GENERATION_LENGTH.
C1_StepOrder ==
    [][ /\ animals' = process_movements(process_brains(animals, foods'))
        /\ ((calls' \in evolved') <=> (age + 1 > GENERATION_LENGTH)) ]_vars

\* C1 witness: after the first call the animal that steers by sight has
\* had a food within EAT_DIST (straight ahead, in sight) and yet kept its
\* initial speed and heading: its brain saw the food where the collision
\* pass had put it, out of sight.
C1_Witness ==
    /\ calls = 1
    /\ \E a \in 1..Len(animals) :
          /\ animals[a].brain = Brain("vision")
          /\ eaten[a] > 0
          /\ animals[a].speed = INIT_SPEED
          /\ animals[a].rotation = 0
          /\ animals[a].position = Point(5000, 9980)

\* C2 (as claimed): every pair found within the eating threshold adds one
\* to that animal's satiation (two foods in one step add two), and no
\* other pair changes it.
C2_SatiationCountsEatenPairs ==
    \A a \in 1..Len(animals) : satiation[a] = eaten[a]

C4_EvolveReplacesPopulation ==
    (calls \in evolved) =>
        /\ ~panicked
        /\ Len(animals) = NumAnimals
        /\ Len(foods) = NumFoods
        /\ \A a \in 1..Len(animals) :
              animals[a].speed = INIT_SPEED /\ satiation[a] = 0

\* C5: after any number of calls to step, generation boundaries included,
\* the World holds as many animals and as many foods as at construction.
C5_CountsFixed ==
    /\ Len(animals) = NumAnimals
    /\ Len(foods) = NumFoods

\* C5 witness: foods have been relocated and a generation boundary has
\* been crossed.
C5_Witness ==
    /\ evolved # {}
    /\ calls > GENERATION_LENGTH + 1
    /\ \E a \in 1..Len(animals) : eaten[a] >= 2

\* C6: in every reachable state every animal's speed lies in
\* [SPEED_MIN, SPEED_MAX].
C6_SpeedInRange ==
    \A a \in 1..Len(animals) :
        SPEED_MIN <= animals[a].speed /\ animals[a].speed <= SPEED_MAX

\* C6 witness: an animal that gains 0.001 in every brain pass has reached
\* SPEED_MAX and been through one more brain pass.
C6_Witness ==
    /\ calls >= 4
    /\ \E a \in 1..Len(animals) :
          animals[a].brain = Brain("bias") /\ animals[a].speed = SPEED_MAX

\* C7 (as claimed): after every step both coordinates of every animal lie
\* in the half-open interval [0, 1); 1.0 is never a coordinate.
C7_PositionHalfOpen ==
    \A a \in 1..Len(animals) :
        /\ 0 <= animals[a].position.x /\ animals[a].position.x < ONE
        /\ 0 <= animals[a].position.y /\ animals[a].position.y < ONE

\* C8 (as claimed): no call to step ends in a fatal abort.
C8_NoStepAborts == ~panicked

\* The angle, in [0, 2 pi), by which the rotation new lies counterclockwise
\* of the rotation old.
TurnedBy(old, new) == (new - old + 2 * PI) % (2 * PI)

\* What the brain of animal a answers to what it sees of the foods fo.
Response(a, fo) ==
    propogate(animals[a].brain,
              process_vision(animals[a].eye, animals[a].position, animals[a].rotation, fo))

----------------------------------------------------------------------------
(* Claims about GeneticAlgorithm::evolve, checked under GaSpec.            *)

\* The length of the chromosomes of the population evolve was called with.
InputLength == Len(chromosome(ga_input[1]))

\* evolve has returned len(population) offspring, each of the length of
\* the input's chromosomes.
Returned ==
    /\ Len(new_population) = Len(ga_input)
    /\ \A i \in 1..Len(new_population) :
          Len(chromosome(new_population[i])) = InputLength

\* C9 as stated: for EVERY non-empty population of chromosomes of one
\* length, evolve returns len(population) offspring of that length and
\* leaves the input as it was.  (Violated: a population whose fitness is
\* zero throughout makes select panic.)
C9_EvolveAlwaysReturnsOffspring ==
    /\ ga_pc # "panic"
    /\ population = ga_input
    /\ (ga_pc = "done" => Returned)

\* C9 amended: evolve panics only when select cannot draw (no member of
\* positive fitness, or one of negative fitness); otherwise every child is
\* as long as the input's chromosomes after crossover and after mutation,
\* the offspring never outnumber the input, evolve returns exactly
\* len(population) of them, and the input population is never modified.
C9_EvolveReturnsOffspringWhenSelectable ==
    /\ population = ga_input
    /\ (ga_pc = "panic" <=> (select_panics(ga_input) /\ ga_trace # << >>))
    /\ (ga_pc \in {"mutate", "create"} => Len(child) = InputLength)
    /\ (ga_pc \in {"select_a", "select_b", "crossover", "mutate", "create"}
            => Len(new_population) < Len(ga_input))
    /\ \A i \in 1..Len(new_population) :
          Len(chromosome(new_population[i])) = InputLength
    /\ (ga_pc \in {"stats", "done"} => Returned)

\* C9 witness: evolve has returned from a population of more than one
\* member, with an offspring that mutation made unlike every parent gene.
C9_Witness ==
    /\ ga_pc = "done"
    /\ Len(ga_input) = MaxPopulation
    /\ Returned
    /\ \E i \in 1..Len(new_population) :
          \A j \in 1..Len(ga_input) :
             chromosome(new_population[i])[1] # chromosome(ga_input[j])[1]

\* The operations of the closure, in the order of lines 35-42.
Operations == << "select_a", "select_b", "crossover", "mutate", "create" >>

\* C10: the operations evolve has run so far are, in this order, select A,
\* select B, crossover, mutate, create for slot 0, then the same five for
\* slot 1, and so on (each one drawing from the one rng as it runs);
\* every slot is complete before the next starts; the crossover is of the
\* two parents selected, and the individual created is the mutated child.
C10_SlotsInOrder ==
    /\ \A k \in 1..Len(ga_trace) :
          ga_trace[k] = << Operations[((k - 1) % 5) + 1], (k - 1) \div 5 >>
    /\ (ga_pc = "panic"
            \/ Len(ga_trace) =
                 5 * Len(new_population)
                 + (CASE ga_pc = "select_a" -> 0
                      [] ga_pc = "select_b" -> 1
                      [] ga_pc = "crossover" -> 2
                      [] ga_pc = "mutate" -> 3
                      [] ga_pc = "create" -> 4
                      [] OTHER -> 0))
    /\ (ga_pc = "mutate" =>
            \A i \in 1..Len(child) : child[i] \in {parent_a[i], parent_b[i]})
    /\ (ga_pc \in {"select_a", "stats", "done"} /\ new_population # << >> =>
            new_population[Len(new_population)] = create(child))
    /\ (ga_pc = "done" => Len(ga_trace) = 5 * Len(ga_input))

\* C10 witness: evolve has filled both slots of a population of two unlike
\* members, and the last slot's two parents were the same individual.
C10_Witness ==
    /\ ga_pc = "done"
    /\ Len(ga_input) = 2
    /\ chromosome(ga_input[1]) # chromosome(ga_input[2])
    /\ fitness(ga_input[1]) > 0
    /\ parent_a = parent_b
    /\ Len(ga_trace) = 10
    /\ ga_trace[10] = << "create", 1 >>

----------------------------------------------------------------------------
(* Claims about runs of evolve from a seeded generator, under DetSpec.     *)

Consumed(k) == run_log[k].pos - (IF k = 1 THEN 0 ELSE run_log[k - 1].pos)

\* C19 as stated: crossover and mutate draw a number of values fixed by
\* the chromosome length, whatever the earlier draws were: any two
\* crossovers, and any two mutations, of chromosomes of one length in a
\* run have drawn as many values.  (Violated: mutate draws the magnitude
\* only for a gene whose gen_bool(chance) came up true.)
C19_DrawsFixedByLength ==
    \A k, j \in 1..Len(run_log) :
        /\ run_log[k].op = run_log[j].op
        /\ run_log[k].op \in { "crossover", "mutate" }
        /\ run_log[k].pc # "panic" /\ run_log[j].pc # "panic"
        /\ Len(run_log[k].child) = Len(run_log[j].child)
        => Consumed(k) = Consumed(j)

----------------------------------------------------------------------------
(* Claims about operations applied on their own, checked under FnSpec.     *)

\* The statistics are those of the input population: the least and the
\* greatest fitness of its members, and the f32 sum of their fitness
\* divided by their number.
StatisticsOfInput(st, pop) ==
    /\ \A i \in 1..Len(pop) :
          st.min_fitness <= pop[i].fitness /\ pop[i].fitness <= st.max_fitness
    /\ \E i \in 1..Len(pop) : st.min_fitness = pop[i].fitness
    /\ \E i \in 1..Len(pop) : st.max_fitness = pop[i].fitness
    /\ st.avg_fitness = f32_div(sum_fitness(pop, 1, 0), Len(pop))

\* C12 as stated: the statistics are those of the input population, and
\* min_fitness <= avg_fitness <= max_fitness.  (Violated: the f32 sum of
\* three members of fitness 0.93859589 rounds up, and the average with it.)
C12_AverageBetweenMinAndMax ==
    Applied("statistics") =>
        /\ StatisticsOfInput(fn_res[1], fn_arg.population)
        /\ fn_res[1].min_fitness <= fn_res[1].avg_fitness
        /\ fn_res[1].avg_fitness <= fn_res[1].max_fitness

\* C12 amended: the statistics are those of the input population, not of
\* the offspring; min_fitness <= max_fitness; and avg_fitness lies between
\* them whenever the f32 sum of the fitness is exact.
C12_StatisticsOfInput ==
    Applied("statistics") =>
        /\ StatisticsOfInput(fn_res[1], fn_arg.population)
        /\ fn_res[1].min_fitness <= fn_res[1].max_fitness
        /\ (sum_fitness(fn_arg.population, 1, 0) = exact_sum(fn_arg.population, 1)
               => /\ fn_res[1].min_fitness <= fn_res[1].avg_fitness
                  /\ fn_res[1].avg_fitness <= fn_res[1].max_fitness)

\* C12 witness: the statistics of three members of unlike fitness whose sum
\* is exact; the average lies strictly between the least and the greatest.
C12_Witness ==
    /\ Applied("statistics")
    /\ Len(fn_arg.population) = 3
    /\ sum_fitness(fn_arg.population, 1, 0) = exact_sum(fn_arg.population, 1)
    /\ fn_res[1].min_fitness < fn_res[1].avg_fitness
    /\ fn_res[1].avg_fitness < fn_res[1].max_fitness

\* Where the values of neuron n of layer l begin in the flat sequence
\* (counted from 0): after the 1 + input width values of every neuron of
\* the layers before and of the neurons before it in its layer.
gene_offset(layers, l, n) ==
    weight_count(SubSeq(layers, 1, l), 1) + (n - 1) * (1 + layers[l])

\* C13: from_weights(T, N.weights()) succeeds and gives a network whose
\* weights() equal N.weights() element by element; N.weights() holds, for
\* every layer in order and every neuron in order, the bias and then the
\* weights of that neuron.
C13_WeightRoundTrip ==
    Applied("round_trip") =>
        LET N == fn_arg.network
            T == fn_arg.layers
            ws == weights(N)
        IN  /\ ~fn_res[1].panic
            /\ weights(fn_res[1].network) = ws
            /\ Len(ws) = weight_count(T, 1)
            /\ \A l \in 1..Len(N) : \A n \in 1..Len(N[l]) :
                  /\ ws[gene_offset(T, l, n) + 1] = N[l][n].bias
                  /\ \A i \in 1..Len(N[l][n].weights) :
                        ws[gene_offset(T, l, n) + 1 + i] = N[l][n].weights[i]

\* C13 witness: a network of two layers of neurons whose biases and
\* weights differ has been taken apart and rebuilt.
C13_Witness ==
    /\ Applied("round_trip")
    /\ fn_arg.layers = << 2, 2, 1 >>
    /\ fn_arg.network[1][1].bias # fn_arg.network[1][1].weights[1]
    /\ fn_arg.network[1][1].weights[1] # fn_arg.network[1][1].weights[2]
    /\ fn_res[1].network = fn_arg.network

\* C14: with K the number of values the topology takes (1 + input width
\* for every neuron), from_weights panics on fewer than K values and on
\* more than K values; when it returns it was given exactly K values, and
\* the network returned holds them in order; given exactly K values for a
\* topology of two layers or more it returns.
C14_ArityEnforced ==
    Applied("from_weights") =>
        LET K == weight_count(fn_arg.layers, 1)
            n == Len(fn_arg.weights)
        IN  /\ (n < K => fn_res[1].panic)
            /\ (n > K => fn_res[1].panic)
            /\ (~fn_res[1].panic =>
                    n = K /\ weights(fn_res[1].network) = fn_arg.weights)
            /\ (n = K /\ Len(fn_arg.layers) > 1 => ~fn_res[1].panic)

\* C14 witness: from_weights has panicked on one value more than a
\* topology of two layers of neurons takes.
C14_Witness ==
    /\ Applied("from_weights")
    /\ fn_arg.layers = << 2, 2, 1 >>
    /\ Len(fn_arg.weights) = weight_count(fn_arg.layers, 1) + 1
    /\ fn_res[1].panic

\* C15: crossover panics exactly when the parents differ in length;
\* otherwise the child is as long as they are and its gene i is parent_a's
\* gene i when the i-th coin came up true and parent_b's gene i when it did
\* not (no gene of another index, no blend).
C15_UniformCrossover ==
    Applied("crossover") =>
        LET a == fn_arg.parent_a
            b == fn_arg.parent_b
            r == fn_res[1]
        IN  /\ r.panic <=> Len(a) # Len(b)
            /\ ~r.panic =>
                  /\ Len(r.child) = Len(a)
                  /\ \A i \in 1..Len(a) :
                        /\ r.child[i] \in {a[i], b[i]}
                        /\ r.child[i] = IF fn_arg.coins[i] THEN a[i] ELSE b[i]

\* C15 witness: a child as long as its parents, with a gene of each.
C15_Witness ==
    /\ Applied("crossover")
    /\ ~fn_res[1].panic
    /\ Len(fn_res[1].child) = MaxGenes
    /\ \E i, j \in 1..MaxGenes :
          /\ fn_res[1].child[i] = fn_arg.parent_a[i]
          /\ fn_res[1].child[j] = fn_arg.parent_b[j]

\* The f32 values a gene may become when the mutation reaches it: the f32
\* sum of the gene and a perturbation of at most |coeff| in magnitude.
Perturbed(gene, coeff) ==
    { f32_plus(gene, d) : d \in (-Abs(coeff))..Abs(coeff) }

\* What C16 says besides the bound: the length is kept; with chance = 0 or
\* with coeff = 0 every gene is left as it was; with chance = 1 every gene
\* has had its perturbation added.
MutationKeeps ==
    LET method == fn_arg.method
        genes == fn_arg.genes
    IN  /\ Len(fn_res[1]) = Len(genes)
        /\ (method.chance = 0 \/ method.coeff = 0 => fn_res[1] = genes)
        /\ (method.chance = ONE =>
               \A i \in 1..Len(genes) :
                  fn_res[1][i] = f32_plus(genes[i],
                      FMul(fn_arg.draws[i].sign * method.coeff, fn_arg.draws[i].u)))

Alone(i) ==
    process_vision(fn_arg.eye, fn_arg.position, fn_arg.rotation, << fn_arg.foods[i] >>)

RECURSIVE SumAlone(_, _)
\* The energy the foods from food i on give cell c, each taken alone.
SumAlone(c, i) ==
    IF i > Len(fn_arg.foods) THEN 0 ELSE Alone(i)[c] + SumAlone(c, i + 1)

\* The food is at fov_range or farther, or its bearing against the heading
\* is outside [-fov_angle / 2, fov_angle / 2].
OutOfSight(food) ==
    \/ food_dist(fn_arg.position, food) >= fn_arg.eye.fov_range
    \/ food_angle(fn_arg.position, fn_arg.rotation, food) < -(fn_arg.eye.fov_angle \div 2)
    \/ food_angle(fn_arg.position, fn_arg.rotation, food) > fn_arg.eye.fov_angle \div 2

\* C17: a food out of sight gives 0 to every cell; any other food gives
\* (fov_range - dist) / fov_range to exactly one cell and 0 to the others;
\* what the cells hold for a list of foods is the sum of what each food
\* gives alone (so a cell no visible food falls in is 0).
C17_VisionAdditive ==
    Applied("vision") =>
        /\ \A i \in 1..Len(fn_arg.foods) :
              IF OutOfSight(fn_arg.foods[i])
              THEN \A c \in 1..fn_arg.eye.cells : Alone(i)[c] = 0
              ELSE \E c \in 1..fn_arg.eye.cells :
                      /\ Alone(i)[c] = FDiv(fn_arg.eye.fov_range
                                             - food_dist(fn_arg.position, fn_arg.foods[i]),
                                            fn_arg.eye.fov_range)
                      /\ Alone(i)[c] > 0
                      /\ \A d \in 1..fn_arg.eye.cells : d # c => Alone(i)[d] = 0
        /\ \A c \in 1..fn_arg.eye.cells : fn_res[1][c] = SumAlone(c, 1)

\* C17 witness: two foods ahead have fallen in one cell, which holds the
\* sum of their energies; every other cell is 0.
C17_Witness ==
    /\ Applied("vision")
    /\ fn_arg.eye = Eye_default
    /\ Len(fn_arg.foods) = 2
    /\ fn_arg.foods[1] # fn_arg.foods[2]
    /\ \E c \in 1..CELLS :
          /\ Alone(1)[c] > 0
          /\ Alone(2)[c] > 0
          /\ fn_res[1][c] = Alone(1)[c] + Alone(2)[c]
          /\ \A d \in 1..CELLS : d # c => fn_res[1][d] = 0

\* C18: process_vision of a valid eye returns exactly cells values, none
\* negative, and the cell index of every food in sight lies in
\* 0..cells - 1, a food at angle +fov_angle / 2 included.
C18_CellsInBounds ==
    Applied("vision") =>
        /\ fn_arg.eye.fov_range > 0 /\ fn_arg.eye.fov_angle > 0 /\ fn_arg.eye.cells > 0
        /\ Len(fn_res[1]) = fn_arg.eye.cells
        /\ DOMAIN fn_res[1] = 1..fn_arg.eye.cells
        /\ \A c \in 1..fn_arg.eye.cells : fn_res[1][c] >= 0
        /\ \A i \in 1..Len(fn_arg.foods) :
              ~OutOfSight(fn_arg.foods[i]) =>
                  food_cell(fn_arg.eye, fn_arg.position, fn_arg.rotation,
                            fn_arg.foods[i]) \in 0..(fn_arg.eye.cells - 1)

\* C18 witness: a food exactly at angle +fov_angle / 2 of an eye of
\* several cells is seen, in the last cell.
C18_Witness ==
    /\ Applied("vision")
    /\ fn_arg.eye.cells > 1
    /\ Len(fn_arg.foods) = 1
    /\ food_angle(fn_arg.position, fn_arg.rotation, fn_arg.foods[1])
           = fn_arg.eye.fov_angle \div 2
    /\ fn_res[1][fn_arg.eye.cells] > 0

====
